---- MODULE Spec2Model ----
(***************************************************************************)
(* The VitalsDashboard component (mock vitals generator + rolling-window   *)
(* updater) as a state machine, together with the pages that host it       *)
(* (DoctorDashboard with its alert list, PatientView), the VitalChart      *)
(* indicator and the Chatbox script injection.                             *)
(*                                                                         *)
(* Conventions                                                             *)
(*  - Instants are integer milliseconds relative to the instant the page   *)
(*    was loaded (new Date().getTime() minus that instant).                *)
(*  - Date.prototype.toISOString is modelled as the pair                   *)
(*    <<date part, time-of-day part>> = <<day number, ms within the day>>; *)
(*    DateParse is its inverse (new Date(str).getTime()).                  *)
(*  - Sample values are fixed-point numbers in thousandths (70 bpm is      *)
(*    70000); Math.sin is a fixed-point polynomial, Math.random a Weyl     *)
(*    sequence with a hidden state `rng` whose seed is not known.          *)
(*  - A handler (mount, click, timer callback) together with the render    *)
(*    and the effects it causes is one atomic step: the page is single     *)
(*    threaded and React flushes the effects of a discrete event before    *)
(*    any timer callback can run.                                          *)
(***************************************************************************)
EXTENDS Integers, Sequences, FiniteSets, TLC

VARIABLES
  mounted,      \* a VitalsDashboard instance is mounted
  isRealTime,   \* the isRealTime prop of the mounted instance
  timeRange,    \* useState '6h'
  vitalsData,   \* useState {}: mapping vital kind -> series
  interval,     \* id captured by the cleanup closure of the real-time effect (0: none)
  timers,       \* the page's active interval timers: set of [id, due]
  nextTimerId,  \* next id setInterval hands out
  now,          \* the wall clock
  rng,          \* hidden state of Math.random
  threw,        \* a timer callback's updater raised a TypeError
  lastOp,       \* history: the handler that produced this state
  events,       \* history: number of host/user events so far
  ticks,        \* history: timer callbacks applied since the last bulk generation
  genHours,     \* harness for generateMockData: the argument
  genOut,       \* harness for generateMockData: the result (<<>> before the call)
  page,         \* the page component the router shows: "none", "doctor" or "patient"
  selectedPatient, \* DoctorDashboard: useState null
  searchQuery,  \* DoctorDashboard: useState ''
  alerts,       \* DoctorDashboard: useState mockAlerts
  activeTab,    \* PatientView: useState "overview"
  opArg,        \* history: the argument of the last alert handler call
  chatboxes,    \* number of mounted Chatbox instances
  scripts,      \* ids of the script elements appended to document.body, in order
  readyState,   \* document.readyState
  loadListeners, \* number of "load" listeners PatientView has on window
  chartData,    \* harness for VitalChart: the data prop
  chartRange,   \* harness for VitalChart: the normalRange prop (NoRange: not given)
  chartOut      \* harness for VitalChart: what the render shows (<<>> before it)

Page == <<page, selectedPatient, searchQuery, alerts, activeTab, opArg>>

Doc == <<chatboxes, scripts, readyState, loadListeners>>

ChartHarness == <<chartData, chartRange, chartOut>>

Host == <<Page, Doc, ChartHarness>>

vars == <<mounted, isRealTime, timeRange, vitalsData, interval, timers,
          nextTimerId, now, rng, threw, lastOp, events, ticks, genHours, genOut,
          Host>>

-----------------------------------------------------------------------------
(* Bounds of the model *)

MaxClockSteps == 4
MaxEvents == 2
MaxSeed == 0
MaxGenHours == 8
LongClockSteps == 104
RemountEvents == 4
RemountClockSteps == 2
PageEvents == 4
PageClockSteps == 2
AlertCalls == 2
MaxChartLen == 2
MaxChartValue == 3
MaxChatboxes == 2
ChatEvents == 5

(* Program constants *)

Cap == 50
TickMs == 5000
SamplesPerHour == 12
SampleMs == 5 * 60000
MsPerDay == 24 * 60 * 60000
ClockStep == TickMs \div 2

Kinds == {"heartRate", "bloodPressureSystolic", "bloodPressureDiastolic",
          "temperature", "oxygenSaturation", "respirationRate"}

timeRangeOptions == {"1h", "6h", "24h", "7d"}

-----------------------------------------------------------------------------
(* Library functions the code calls *)

\* Date.prototype.toISOString: "<date>T<time of day>Z"
toISOString(t) == <<t \div MsPerDay, t % MsPerDay>>

\* new Date(str).getTime()
DateParse(s) == s[1] * MsPerDay + s[2]

\* Math.random(): the k-th draw (k = 0 is the next one) from hidden state r,
\* as a fraction in thousandths, 0 <= u < 1000.
MathRandom(r, k) == (r + k * 617) % 1000

\* the hidden state after n draws
RngAfter(r, n) == (r + n * 617) % 1000

\* Math.floor(Math.random() * range), u the draw in thousandths
FloorRandom_Round(u, range) == (u * range + 500) \div 1000

FloorRandom(u, range) == (u * range) \div 1000

\* sin on [0, pi/2], argument and result in 1/10000
SinQuarter(x) ==
  LET x2 == (x * x) \div 10000
      x3 == (x * x2) \div 10000
      x5 == (x3 * x2) \div 10000
      x7 == ((x5 \div 2) * x2) \div 5000
  IN  x - (x3 \div 6) + (x5 \div 120) - (x7 \div 5040)

\* Math.sin(num / den) in 1/10000, num >= 0, den > 0
MathSin(num, den) ==
  LET twoPi == 62832
      half  == twoPi \div 2
      a == ((num * 10000) \div den) % twoPi
      b == IF a >= half THEN a - half ELSE a
      c == IF b > half \div 2 THEN half - b ELSE b
      s == SinQuarter(c)
  IN  IF a >= half THEN -s ELSE s

\* Math.sin(i / period) * amplitude, amplitude and result in thousandths
Osc_TenfoldAmplitude(i, period, ampMilli) == (MathSin(i, period) * ampMilli) \div 1000

Osc(i, period, ampMilli) == (MathSin(i, period) * ampMilli) \div 10000

\* Array.prototype.slice(-n)
SliceLast_First(s, n) == IF Len(s) <= n THEN s ELSE SubSeq(s, 1, n)

SliceLast(s, n) == IF Len(s) <= n THEN s ELSE SubSeq(s, Len(s) - n + 1, Len(s))

-----------------------------------------------------------------------------
(* generateMockData *)

\* for (let i = hours * 12; i >= 0; i--): the number of iterations
GenCount_Exclusive(hours) ==
  IF hours * SamplesPerHour > 0 THEN hours * SamplesPerHour ELSE 0

GenCount(hours) ==
  IF hours * SamplesPerHour + 1 > 0 THEN hours * SamplesPerHour + 1 ELSE 0

\* new Date(now.getTime() - i * 5 * 60000).getTime()
SampleTime_Forward(nowMs, i) == nowMs + i * SampleMs

SampleTime(nowMs, i) == nowMs - i * SampleMs

generateMockData(hours, nowMs, r) ==
  LET cnt == GenCount(hours)
  IN  <<>> \o
      [j \in 1..cnt |->
        LET i == cnt - j
            d == 6 * (j - 1)
        IN  [time |-> toISOString(SampleTime(nowMs, i)),
             heartRate |->
               1000 * (FloorRandom(MathRandom(r, d), 30) + 70) + Osc(i, 10, 10000),
             bloodPressureSystolic |->
               1000 * (FloorRandom(MathRandom(r, d + 1), 20) + 110) + Osc(i, 8, 5000),
             bloodPressureDiastolic |->
               1000 * (FloorRandom(MathRandom(r, d + 2), 15) + 70) + Osc(i, 8, 3000),
             temperature |->
               98600 + (MathRandom(r, d + 3) - 500) * 2 + Osc(i, 15, 500),
             oxygenSaturation |->
               1000 * (FloorRandom(MathRandom(r, d + 4), 5) + 95) + Osc(i, 12, 2000),
             respirationRate |->
               1000 * (FloorRandom(MathRandom(r, d + 5), 8) + 16) + Osc(i, 7, 2000)]]

\* number of Math.random calls generateMockData(hours) makes
GenDraws(hours) == 6 * GenCount(hours)

\* timeRange === '1h' ? 1 : timeRange === '6h' ? 6 : timeRange === '24h' ? 24 : 168
HoursOf_DaysAsHours(tr) == IF tr = "1h" THEN 1 ELSE IF tr = "6h" THEN 6 ELSE IF tr = "24h" THEN 24 ELSE 7

HoursOf(tr) == IF tr = "1h" THEN 1 ELSE IF tr = "6h" THEN 6 ELSE IF tr = "24h" THEN 24 ELSE 168

\* the object handed to setVitalsData by the timeRange effect
SeriesOf_MissingKey(data) ==
  [k \in Kinds \ {"respirationRate"} |->
     <<>> \o [j \in 1..Len(data) |-> [time |-> data[j].time, value |-> data[j][k]]]]

SeriesOf(data) ==
  [k \in Kinds |-> <<>> \o [j \in 1..Len(data) |-> [time |-> data[j].time, value |-> data[j][k]]]]

\* the timeRange effect: generate and replace
TimeRangeEffect_Merge(tr, nowMs, r) ==
  LET fresh == SeriesOf(generateMockData(HoursOf(tr), nowMs, r))
  IN  [k \in Kinds |-> IF k \in DOMAIN vitalsData THEN vitalsData[k] \o fresh[k] ELSE fresh[k]]

TimeRangeEffect(tr, nowMs, r) == SeriesOf(generateMockData(HoursOf(tr), nowMs, r))

-----------------------------------------------------------------------------
(* The real-time effect and the timer callback *)

\* newPoint of the timer callback
NewPoint(nowMs, r) ==
  [time |-> toISOString(nowMs),
   heartRate |-> 1000 * (FloorRandom(MathRandom(r, 0), 30) + 70),
   bloodPressureSystolic |-> 1000 * (FloorRandom(MathRandom(r, 1), 20) + 110),
   bloodPressureDiastolic |-> 1000 * (FloorRandom(MathRandom(r, 2), 15) + 70),
   temperature |-> 98600 + (MathRandom(r, 3) - 500) * 2,
   oxygenSaturation |-> 1000 * (FloorRandom(MathRandom(r, 4), 5) + 95),
   respirationRate |-> 1000 * (FloorRandom(MathRandom(r, 5), 8) + 16)]

\* [...prev[k].slice(-50), { time: now, value: newPoint[k] }]
AppendCapped_Prepend(series, sample) == <<sample>> \o SliceLast(series, Cap)

AppendCapped_CapAfter(series, sample) == SliceLast(Append(series, sample), Cap)

AppendCapped(series, sample) == Append(SliceLast(series, Cap), sample)

\* the updater passed to setVitalsData by the timer callback
TickUpdater_SkipTemperature(prev, nowMs, r) ==
  LET p == NewPoint(nowMs, r)
  IN  [k \in Kinds |->
        IF k = "temperature" THEN prev[k]
        ELSE AppendCapped(prev[k], [time |-> p.time, value |-> p[k]])]

TickUpdater(prev, nowMs, r) ==
  LET p == NewPoint(nowMs, r)
  IN  [k \in Kinds |-> AppendCapped(prev[k], [time |-> p.time, value |-> p[k]])]

\* setInterval(cb, 5000): a new timer, first due one period from now
SetInterval(ts, id, nowMs) == ts \cup {[id |-> id, due |-> nowMs + TickMs]}

\* an interval timer that fired is due again one period later
Rearm_OneShot(ts, t) == ts \ {t}

Rearm(ts, t) == (ts \ {t}) \cup {[id |-> t.id, due |-> t.due + TickMs]}

\* clearInterval(id)
ClearInterval_Noop(ts, id) == ts

ClearInterval(ts, id) == {t \in ts : t.id # id}

\* the body of the real-time effect, run with the timers `ts` left by the
\* previous cleanup: if (!isRealTime) return; const interval = setInterval(...)
RealTimeEffect_IgnoreFlag(ts, flag) ==
  /\ timers' = SetInterval(ts, nextTimerId, now)
  /\ interval' = nextTimerId
  /\ nextTimerId' = nextTimerId + 1

RealTimeEffect(ts, flag) ==
  IF flag
  THEN /\ timers' = SetInterval(ts, nextTimerId, now)
       /\ interval' = nextTimerId
       /\ nextTimerId' = nextTimerId + 1
  ELSE /\ timers' = ts
       /\ interval' = 0
       /\ UNCHANGED nextTimerId

\* the cleanup the effect returned: () => clearInterval(interval); none when
\* the effect returned early
RealTimeCleanup_Skip(ts, id) == ts

RealTimeCleanup(ts, id) == IF id # 0 THEN ClearInterval(ts, id) ELSE ts

-----------------------------------------------------------------------------
(* The pages that host the view: data and pure functions *)

\* selectedPatient === null
Null == "null"

\* strings that are searched are sequences of characters
mockPatients ==
  << [id |-> "001", name |-> <<"S","a","r","a","h"," ","J","o","h","n","s","o","n">>,
      room |-> <<"3","0","1","A">>],
     [id |-> "002", name |-> <<"M","i","c","h","a","e","l"," ","C","h","e","n">>,
      room |-> <<"3","0","2","B">>],
     [id |-> "003", name |-> <<"E","m","i","l","y"," ","R","o","d","r","i","g","u","e","z">>,
      room |-> <<"3","0","3","A">>],
     [id |-> "004", name |-> <<"R","o","b","e","r","t"," ","W","i","l","s","o","n">>,
      room |-> <<"3","0","4","B">> ] >>

mockAlerts ==
  << [id |-> "alert-001", patientId |-> "003", type |-> "critical", value |-> 125,
      acknowledged |-> FALSE],
     [id |-> "alert-002", patientId |-> "002", type |-> "warning", value |-> 145,
      acknowledged |-> FALSE],
     [id |-> "alert-003", patientId |-> "003", type |-> "warning", value |-> 88,
      acknowledged |-> FALSE] >>

\* the tab ids of PatientView
Tabs == {"overview", "vitals", "health-info"}

\* the id PatientView gives the script element it appends
EmbedScriptId == "6qJi4KpsuUDkXM45FHh4u"

\* the id Chatbox gives the script element it appends
ChatbaseScriptId == "chatbase-script"

\* String.prototype.toLowerCase, one character
LowerChar(c) ==
  CASE c = "A" -> "a" [] c = "B" -> "b" [] c = "C" -> "c" [] c = "E" -> "e"
    [] c = "J" -> "j" [] c = "M" -> "m" [] c = "R" -> "r" [] c = "S" -> "s"
    [] c = "W" -> "w" [] OTHER -> c

toLowerCase(str) == [j \in 1..Len(str) |-> LowerChar(str[j])]

\* String.prototype.includes
includes(str, q) ==
  \E j \in 0..(Len(str) - Len(q)) : SubSeq(str, j + 1, j + Len(q)) = q

\* mockPatients.filter(patient => name includes query || room includes query)
filteredPatients(query) ==
  SelectSeq(mockPatients,
            LAMBDA patient :
              \/ includes(toLowerCase(patient.name), toLowerCase(query))
              \/ includes(toLowerCase(patient.room), toLowerCase(query)))

\* prev.map(alert => alert.id === alertId ? { ...alert, acknowledged: true } : alert)
handleAcknowledgeAlert_Toggle(prev, alertId) ==
  [j \in 1..Len(prev) |->
     IF prev[j].id = alertId
     THEN [prev[j] EXCEPT !.acknowledged = ~prev[j].acknowledged]
     ELSE prev[j]]

handleAcknowledgeAlert(prev, alertId) ==
  [j \in 1..Len(prev) |->
     IF prev[j].id = alertId THEN [prev[j] EXCEPT !.acknowledged = TRUE] ELSE prev[j]]

\* prev.filter(alert => alert.id !== alertId)
handleDismissAlert_AlsoDropsAcknowledged(prev, alertId) ==
  SelectSeq(prev, LAMBDA alert : alert.id # alertId /\ ~alert.acknowledged)

handleDismissAlert(prev, alertId) == SelectSeq(prev, LAMBDA alert : alert.id # alertId)

\* AlertPanel: {!alert.acknowledged && (<acknowledge and dismiss buttons>)}
ControlsOffered_Always(alert) == TRUE

ControlsOffered(alert) == ~alert.acknowledged

\* AlertPanel: alerts.length === 0 ? <"No active alerts"> : <the list>
EmptyStateShown(list) == Len(list) = 0

\* AlertPanel: alerts.filter(a => !a.acknowledged).length
ActiveCount(list) == Len(SelectSeq(list, LAMBDA a : ~a.acknowledged))

\* DoctorDashboard renders the patient list and the alert panel unless a
\* patient is selected
PanelShown == page = "doctor" /\ selectedPatient = Null

\* the state of the host before any page component is mounted
HostIdle ==
  /\ page = "none"
  /\ selectedPatient = Null
  /\ searchQuery = <<>>
  /\ alerts = mockAlerts
  /\ activeTab = "overview"
  /\ opArg = Null
  /\ chatboxes = 0
  /\ scripts = <<>>
  /\ readyState = "loading"
  /\ loadListeners = 0
  /\ chartData = <<>>
  /\ chartRange = <<>>
  /\ chartOut = <<>>

-----------------------------------------------------------------------------
(* VitalChart: an optional value (a prop not given, undefined) is the empty  *)
(* sequence, a present value v is <<v>>.                                      *)

\* data[data.length - 1]?.value
LatestValue(data) == IF Len(data) = 0 THEN <<>> ELSE <<data[Len(data)].value>>

\* JavaScript truthiness of an optional number
Truthy_Defined(o) == o # <<>>

Truthy(o) == o # <<>> /\ o[1] # 0

\* if (!normalRange) return false; return value < min || value > max
isAbnormal_Exclusive(value, normalRange) ==
  IF normalRange = <<>> THEN FALSE
  ELSE value <= normalRange[1].min \/ value >= normalRange[1].max

isAbnormal(value, normalRange) ==
  IF normalRange = <<>> THEN FALSE
  ELSE value < normalRange[1].min \/ value > normalRange[1].max

\* latestValue && normalRange ? isAbnormal(latestValue) : false
isCurrentAbnormal(data, normalRange) ==
  IF Truthy(LatestValue(data)) /\ normalRange # <<>>
  THEN isAbnormal(LatestValue(data)[1], normalRange)
  ELSE FALSE

\* {latestValue || '--'}: the number, or the dash placeholder
LatestText(data) ==
  IF Truthy(LatestValue(data))
  THEN [dash |-> FALSE, value |-> LatestValue(data)[1]]
  ELSE [dash |-> TRUE, value |-> 0]

\* the normalRange props VitalsDashboard passes, in thousandths
NormalRange(k) ==
  CASE k = "heartRate" -> [min |-> 60000, max |-> 100000]
    [] k = "bloodPressureSystolic" -> [min |-> 90000, max |-> 140000]
    [] k = "bloodPressureDiastolic" -> [min |-> 60000, max |-> 90000]
    [] k = "temperature" -> [min |-> 97000, max |-> 99000]
    [] k = "oxygenSaturation" -> [min |-> 95000, max |-> 100000]
    [] k = "respirationRate" -> [min |-> 12000, max |-> 20000]

\* data={vitalsData[k] || []}
ChartData(k) == IF k \in DOMAIN vitalsData THEN vitalsData[k] ELSE <<>>

\* the indicator of the chart VitalsDashboard renders for kind k
ChartFlag(k) == isCurrentAbnormal(ChartData(k), <<NormalRange(k)>>)

-----------------------------------------------------------------------------
Init ==
  /\ mounted = FALSE
  /\ isRealTime = TRUE
  /\ timeRange = "6h"
  /\ vitalsData = <<>>
  /\ interval = 0
  /\ timers = {}
  /\ nextTimerId = 1
  /\ now = 0
  /\ rng \in 0..MaxSeed
  /\ threw = FALSE
  /\ lastOp = "init"
  /\ events = 0
  /\ ticks = 0
  /\ genHours = 0
  /\ genOut = <<>>
  /\ HostIdle

Harness == <<genHours, genOut>>

\* The host renders <VitalsDashboard isRealTime={flag}/>: first render with the
\* useState initial values, then both effects in declaration order.
Mount_DefaultOneHour(flag) ==
  /\ ~mounted
  /\ mounted' = TRUE
  /\ isRealTime' = flag
  /\ timeRange' = "1h"
  /\ vitalsData' = TimeRangeEffect("1h", now, rng)
  /\ rng' = RngAfter(rng, GenDraws(HoursOf("1h")))
  /\ RealTimeEffect(timers, flag)
  /\ ticks' = 0
  /\ threw' = FALSE
  /\ lastOp' = "mount"
  /\ events' = events + 1
  /\ UNCHANGED <<now, Harness, Host>>

MountView(flag) ==
  /\ ~mounted
  /\ mounted' = TRUE
  /\ isRealTime' = flag
  /\ timeRange' = "6h"
  /\ vitalsData' = TimeRangeEffect("6h", now, rng)
  /\ rng' = RngAfter(rng, GenDraws(HoursOf("6h")))
  /\ RealTimeEffect(timers, flag)
  /\ ticks' = 0
  /\ threw' = FALSE
  /\ UNCHANGED <<now, Harness>>

Mount(flag) ==
  /\ MountView(flag)
  /\ lastOp' = "mount"
  /\ events' = events + 1
  /\ UNCHANGED Host

\* The component is removed: effect cleanups run, the state is dropped.
UnmountView ==
  /\ mounted
  /\ mounted' = FALSE
  /\ timers' = RealTimeCleanup(timers, interval)
  /\ interval' = 0
  /\ timeRange' = "6h"
  /\ vitalsData' = <<>>
  /\ isRealTime' = TRUE
  /\ ticks' = 0
  /\ threw' = FALSE
  /\ UNCHANGED <<nextTimerId, now, rng, Harness>>

Unmount ==
  /\ UnmountView
  /\ lastOp' = "unmount"
  /\ events' = events + 1
  /\ UNCHANGED Host

\* onClick={() => setTimeRange(option.value)}: a different value re-renders and
\* re-runs the [timeRange] effect; the same value bails out.
SetTimeRange_RestartsTimer(v) ==
  /\ mounted
  /\ ~threw
  /\ IF v # timeRange
     THEN /\ timeRange' = v
          /\ vitalsData' = TimeRangeEffect(v, now, rng)
          /\ rng' = RngAfter(rng, GenDraws(HoursOf(v)))
          /\ ticks' = 0
          /\ lastOp' = "setTimeRange"
          /\ RealTimeEffect(RealTimeCleanup(timers, interval), isRealTime)
     ELSE /\ UNCHANGED <<timeRange, vitalsData, rng, ticks, interval, timers, nextTimerId>>
          /\ lastOp' = "reselect"
  /\ events' = events + 1
  /\ UNCHANGED <<mounted, isRealTime, now, threw, Harness, Host>>

SetTimeRange_AlwaysRegenerates(v) ==
  /\ mounted
  /\ ~threw
  /\ timeRange' = v
  /\ vitalsData' = TimeRangeEffect(v, now, rng)
  /\ rng' = RngAfter(rng, GenDraws(HoursOf(v)))
  /\ ticks' = 0
  /\ lastOp' = IF v # timeRange THEN "setTimeRange" ELSE "reselect"
  /\ events' = events + 1
  /\ UNCHANGED <<mounted, isRealTime, interval, timers, nextTimerId, now, threw, Harness, Host>>

SetTimeRange(v) ==
  /\ mounted
  /\ ~threw
  /\ IF v # timeRange
     THEN /\ timeRange' = v
          /\ vitalsData' = TimeRangeEffect(v, now, rng)
          /\ rng' = RngAfter(rng, GenDraws(HoursOf(v)))
          /\ ticks' = 0
          /\ lastOp' = "setTimeRange"
     ELSE /\ UNCHANGED <<timeRange, vitalsData, rng, ticks>>
          /\ lastOp' = "reselect"
  /\ events' = events + 1
  /\ UNCHANGED <<mounted, isRealTime, interval, timers, nextTimerId, now, threw, Harness, Host>>

\* The host re-renders with a different isRealTime prop: the [isRealTime]
\* effect's cleanup runs, then the effect runs again.
SetIsRealTime(flag) ==
  /\ mounted
  /\ ~threw
  /\ flag # isRealTime
  /\ isRealTime' = flag
  /\ RealTimeEffect(RealTimeCleanup(timers, interval), flag)
  /\ lastOp' = "setIsRealTime"
  /\ events' = events + 1
  /\ UNCHANGED <<mounted, timeRange, vitalsData, now, rng, threw, ticks, Harness, Host>>

\* An interval timer that is due fires: its callback calls setVitalsData with
\* the updater; the timer is re-armed one period later.
Tick(t) ==
  /\ t \in timers
  /\ t.due = now
  /\ timers' = Rearm(timers, t)
  /\ IF mounted /\ ~threw
     THEN IF DOMAIN vitalsData = Kinds
          THEN /\ vitalsData' = TickUpdater(vitalsData, now, rng)
               /\ rng' = RngAfter(rng, 6)
               /\ ticks' = ticks + 1
               /\ UNCHANGED threw
          ELSE /\ threw' = TRUE
               /\ rng' = RngAfter(rng, 6)
               /\ UNCHANGED <<vitalsData, ticks>>
     ELSE UNCHANGED <<vitalsData, rng, ticks, threw>>
  /\ lastOp' = "tick"
  /\ UNCHANGED <<mounted, isRealTime, timeRange, interval, nextTimerId, now, events, Harness, Host>>

\* Time passes; a timer never fires late.
Advance(limit) ==
  /\ \A t \in timers : t.due > now
  /\ now + ClockStep <= limit * ClockStep
  /\ now' = now + ClockStep
  /\ lastOp' = "advance"
  /\ UNCHANGED <<mounted, isRealTime, timeRange, vitalsData, interval, timers,
                 nextTimerId, rng, threw, events, ticks, Harness, Host>>

Next ==
  \/ \E flag \in BOOLEAN : events < MaxEvents /\ Mount(flag)
  \/ events < MaxEvents /\ Unmount
  \/ \E v \in timeRangeOptions : events < MaxEvents /\ SetTimeRange(v)
  \/ \E flag \in BOOLEAN : events < MaxEvents /\ SetIsRealTime(flag)
  \/ \E t \in timers : Tick(t)
  \/ Advance(MaxClockSteps)

Spec == Init /\ [][Next]_vars

-----------------------------------------------------------------------------
(* Long runs: the view is mounted and a window chosen at time 0, then the   *)
(* timer runs for more than Cap periods.                                    *)

LongNext ==
  \/ \E flag \in BOOLEAN : events < MaxEvents /\ now = 0 /\ Mount(flag)
  \/ \E v \in timeRangeOptions : events < MaxEvents /\ now = 0 /\ SetTimeRange(v)
  \/ \E t \in timers : Tick(t)
  \/ Advance(LongClockSteps)

LongSpec == Init /\ [][LongNext]_vars

-----------------------------------------------------------------------------
(* Successive view instances: the view is mounted, its user picks a window  *)
(* as the first event after the first mount, and the view is unmounted and  *)
(* mounted again, with ticks in between, within a short stretch of time.    *)

RemountNext ==
  \/ \E flag \in BOOLEAN : events < RemountEvents /\ Mount(flag)
  \/ events < RemountEvents /\ Unmount
  \/ \E v \in timeRangeOptions : events = 1 /\ SetTimeRange(v)
  \/ \E t \in timers : Tick(t)
  \/ Advance(RemountClockSteps)

RemountSpec == Init /\ [][RemountNext]_vars

-----------------------------------------------------------------------------
(* The pages: DoctorDashboard, PatientView and the Chatbox component *)

View == <<mounted, isRealTime, timeRange, vitalsData, interval, timers,
          nextTimerId, now, rng, threw, ticks, Harness>>

Pages == {"doctor", "patient"}

\* what the user types or pastes into the search box
Queries == {<<>>, <<"s">>, <<"3","0","2">>, <<"E","M">>, <<"x">>}

\* PatientView's embed effect: append the script now if the document is
\* loaded, otherwise when the window's load event fires
EmbedEffect ==
  IF readyState = "complete"
  THEN /\ scripts' = Append(scripts, EmbedScriptId)
       /\ UNCHANGED loadListeners
  ELSE /\ loadListeners' = loadListeners + 1
       /\ UNCHANGED scripts

\* The router mounts a page component: its useState initial values, then its
\* effects.
OpenPage(p) ==
  /\ page = "none"
  /\ page' = p
  /\ selectedPatient' = Null
  /\ searchQuery' = <<>>
  /\ alerts' = mockAlerts
  /\ activeTab' = "overview"
  /\ opArg' = Null
  /\ IF p = "patient" THEN EmbedEffect ELSE UNCHANGED <<scripts, loadListeners>>
  /\ lastOp' = "openPage"
  /\ events' = events + 1
  /\ UNCHANGED <<View, chatboxes, readyState, ChartHarness>>

\* The router unmounts the page component: the view inside it, if any, is
\* unmounted, PatientView's effect cleanup removes its load listener, the
\* page's state is dropped.
ClosePage ==
  /\ page # "none"
  /\ page' = "none"
  /\ selectedPatient' = Null
  /\ searchQuery' = <<>>
  /\ alerts' = mockAlerts
  /\ activeTab' = "overview"
  /\ opArg' = Null
  /\ IF mounted THEN UnmountView ELSE UNCHANGED View
  /\ loadListeners' = IF page = "patient" THEN 0 ELSE loadListeners
  /\ lastOp' = "closePage"
  /\ events' = events + 1
  /\ UNCHANGED <<chatboxes, scripts, readyState, ChartHarness>>

\* PatientCard onClick={() => setSelectedPatient(patient.id)}: the dashboard
\* re-renders as the patient monitor with <VitalsDashboard isRealTime={true}/>
SelectPatient(id) ==
  /\ PanelShown
  /\ \E j \in 1..Len(filteredPatients(searchQuery)) : filteredPatients(searchQuery)[j].id = id
  /\ selectedPatient' = id
  /\ MountView(TRUE)
  /\ lastOp' = "selectPatient"
  /\ events' = events + 1
  /\ UNCHANGED <<page, searchQuery, alerts, activeTab, opArg, Doc, ChartHarness>>

\* Back to Dashboard: onClick={() => setSelectedPatient(null)}
Back_KeepsView ==
  /\ page = "doctor"
  /\ selectedPatient # Null
  /\ selectedPatient' = Null
  /\ lastOp' = "back"
  /\ events' = events + 1
  /\ UNCHANGED <<page, searchQuery, alerts, activeTab, opArg, View, Doc, ChartHarness>>

Back_ResetsAlerts ==
  /\ page = "doctor"
  /\ selectedPatient # Null
  /\ selectedPatient' = Null
  /\ alerts' = mockAlerts
  /\ UnmountView
  /\ lastOp' = "back"
  /\ events' = events + 1
  /\ UNCHANGED <<page, searchQuery, activeTab, opArg, Doc, ChartHarness>>

Back ==
  /\ page = "doctor"
  /\ selectedPatient # Null
  /\ selectedPatient' = Null
  /\ UnmountView
  /\ lastOp' = "back"
  /\ events' = events + 1
  /\ UNCHANGED <<page, searchQuery, alerts, activeTab, opArg, Doc, ChartHarness>>

\* onChange={(e) => setSearchQuery(e.target.value)}
SetSearchQuery(q) ==
  /\ PanelShown
  /\ searchQuery' = q
  /\ lastOp' = "setSearchQuery"
  /\ events' = events + 1
  /\ UNCHANGED <<page, selectedPatient, alerts, activeTab, opArg, View, Doc, ChartHarness>>

\* handleAcknowledgeAlert(alertId)
CallAcknowledge(alertId) ==
  /\ page = "doctor"
  /\ alerts' = handleAcknowledgeAlert(alerts, alertId)
  /\ opArg' = alertId
  /\ lastOp' = "acknowledge"
  /\ events' = events + 1
  /\ UNCHANGED <<page, selectedPatient, searchQuery, activeTab, View, Doc, ChartHarness>>

\* handleDismissAlert(alertId)
CallDismiss(alertId) ==
  /\ page = "doctor"
  /\ alerts' = handleDismissAlert(alerts, alertId)
  /\ opArg' = alertId
  /\ lastOp' = "dismiss"
  /\ events' = events + 1
  /\ UNCHANGED <<page, selectedPatient, searchQuery, activeTab, View, Doc, ChartHarness>>

\* AlertPanel: the acknowledge button of the i-th alert shown
ClickAcknowledge(i) ==
  /\ PanelShown
  /\ i \in 1..Len(alerts)
  /\ ControlsOffered(alerts[i])
  /\ CallAcknowledge(alerts[i].id)

\* AlertPanel: the dismiss button of the i-th alert shown
ClickDismiss(i) ==
  /\ PanelShown
  /\ i \in 1..Len(alerts)
  /\ ControlsOffered(alerts[i])
  /\ CallDismiss(alerts[i].id)

\* PatientView tab button: onClick={() => setActiveTab(tab.id)};
\* {activeTab === "vitals" && <VitalsDashboard isRealTime={true}/>}
SetActiveTab(tab) ==
  /\ page = "patient"
  /\ activeTab' = tab
  /\ IF tab = "vitals" /\ activeTab # "vitals" THEN MountView(TRUE)
     ELSE IF tab # "vitals" /\ activeTab = "vitals" THEN UnmountView
     ELSE UNCHANGED View
  /\ lastOp' = "setActiveTab"
  /\ events' = events + 1
  /\ UNCHANGED <<page, selectedPatient, searchQuery, alerts, opArg, Doc, ChartHarness>>

PageNext ==
  \/ \E p \in Pages : events < PageEvents /\ OpenPage(p)
  \/ events < PageEvents /\ ClosePage
  \/ \E j \in 1..Len(mockPatients) : events < PageEvents /\ SelectPatient(mockPatients[j].id)
  \/ events < PageEvents /\ Back
  \/ \E q \in Queries : events < PageEvents /\ SetSearchQuery(q)
  \/ \E i \in 1..Len(mockAlerts) : events < PageEvents /\ ClickAcknowledge(i)
  \/ \E i \in 1..Len(mockAlerts) : events < PageEvents /\ ClickDismiss(i)
  \/ \E tab \in Tabs : events < PageEvents /\ SetActiveTab(tab)
  \/ \E t \in timers : Tick(t)
  \/ Advance(PageClockSteps)

PageSpec == Init /\ [][PageNext]_vars

-----------------------------------------------------------------------------
(* The alert handlers as functions of the list and the id: the list is any   *)
(* list the panel can produce from mockAlerts, the id any id, known or not.  *)

AlertIds == {mockAlerts[j].id : j \in 1..Len(mockAlerts)}

UnknownId == "alert-999"

\* the alerts of `kept`, in the order of mockAlerts, those of `acked` acknowledged
AlertList(kept, acked) ==
  LET sub == SelectSeq(mockAlerts, LAMBDA a : a.id \in kept)
  IN  [j \in 1..Len(sub) |-> [sub[j] EXCEPT !.acknowledged = (sub[j].id \in acked)]]

AlertLists == {AlertList(kept, acked) : kept \in SUBSET AlertIds, acked \in SUBSET AlertIds}

AlertInit ==
  /\ mounted = FALSE
  /\ isRealTime = TRUE
  /\ timeRange = "6h"
  /\ vitalsData = <<>>
  /\ interval = 0
  /\ timers = {}
  /\ nextTimerId = 1
  /\ now = 0
  /\ rng \in 0..MaxSeed
  /\ threw = FALSE
  /\ lastOp = "init"
  /\ events = 0
  /\ ticks = 0
  /\ genHours = 0
  /\ genOut = <<>>
  /\ page = "doctor"
  /\ selectedPatient = Null
  /\ searchQuery = <<>>
  /\ alerts \in AlertLists
  /\ activeTab = "overview"
  /\ opArg = Null
  /\ chatboxes = 0
  /\ scripts = <<>>
  /\ readyState = "loading"
  /\ loadListeners = 0
  /\ chartData = <<>>
  /\ chartRange = <<>>
  /\ chartOut = <<>>

AlertNext ==
  \/ \E id \in AlertIds \cup {UnknownId} : events < AlertCalls /\ CallAcknowledge(id)
  \/ \E id \in AlertIds \cup {UnknownId} : events < AlertCalls /\ CallDismiss(id)

AlertSpec == AlertInit /\ [][AlertNext]_vars

-----------------------------------------------------------------------------
(* VitalChart as a pure function of its props: the series and the optional  *)
(* normal range are drawn from bounded sets, one step renders.              *)

ChartValues == (-1)..MaxChartValue

ChartSeries ==
  UNION {{[j \in 1..n |-> [time |-> toISOString(j * SampleMs), value |-> f[j]]] :
            f \in [1..n -> ChartValues]} : n \in 0..MaxChartLen}

\* not given, or a range with min <= max as every caller passes
ChartRanges ==
  {<<>>} \cup {<<r>> : r \in {x \in [min : 0..MaxChartValue, max : 0..MaxChartValue] :
                                  x.min <= x.max}}

ChartInit ==
  /\ mounted = FALSE
  /\ isRealTime = TRUE
  /\ timeRange = "6h"
  /\ vitalsData = <<>>
  /\ interval = 0
  /\ timers = {}
  /\ nextTimerId = 1
  /\ now = 0
  /\ rng \in 0..MaxSeed
  /\ threw = FALSE
  /\ lastOp = "init"
  /\ events = 0
  /\ ticks = 0
  /\ genHours = 0
  /\ genOut = <<>>
  /\ page = "none"
  /\ selectedPatient = Null
  /\ searchQuery = <<>>
  /\ alerts = mockAlerts
  /\ activeTab = "overview"
  /\ opArg = Null
  /\ chatboxes = 0
  /\ scripts = <<>>
  /\ readyState = "loading"
  /\ loadListeners = 0
  /\ chartData \in ChartSeries
  /\ chartRange \in ChartRanges
  /\ chartOut = <<>>

ChartRender ==
  /\ lastOp = "init"
  /\ chartOut' = [abnormal |-> isCurrentAbnormal(chartData, chartRange),
                  text |-> LatestText(chartData)]
  /\ lastOp' = "render"
  /\ UNCHANGED <<View, events, Page, Doc, chartData, chartRange>>

ChartNext == ChartRender

ChartSpec == ChartInit /\ [][ChartNext]_vars

-----------------------------------------------------------------------------
(* The Chatbox component and the document it writes to: Chatbox instances   *)
(* are mounted and unmounted by whatever renders them, pages come and go,   *)
(* the window's load event fires once.                                      *)

\* document.getElementById(id), over the script elements appended to the body
getElementById(doc, id) == \E j \in 1..Len(doc) : doc[j] = id

\* the effect of Chatbox: if (document.getElementById("chatbase-script")) return;
\* ...; document.body.appendChild(script)
ChatboxEffect_NoGuard(doc) == Append(doc, ChatbaseScriptId)

ChatboxEffect(doc) ==
  IF getElementById(doc, ChatbaseScriptId) THEN doc ELSE Append(doc, ChatbaseScriptId)

\* a Chatbox is rendered: its effect runs once after the first render
MountChatbox ==
  /\ chatboxes < MaxChatboxes
  /\ chatboxes' = chatboxes + 1
  /\ scripts' = ChatboxEffect(scripts)
  /\ lastOp' = "mountChatbox"
  /\ events' = events + 1
  /\ UNCHANGED <<View, Page, readyState, loadListeners, ChartHarness>>

\* a Chatbox is removed: its effect returns no cleanup
UnmountChatbox ==
  /\ chatboxes > 0
  /\ chatboxes' = chatboxes - 1
  /\ lastOp' = "unmountChatbox"
  /\ events' = events + 1
  /\ UNCHANGED <<View, Page, scripts, readyState, loadListeners, ChartHarness>>

\* the window's load event: the document is complete, every registered onLoad
\* listener of PatientView appends its script
WindowLoad ==
  /\ readyState = "loading"
  /\ readyState' = "complete"
  /\ scripts' = scripts \o [j \in 1..loadListeners |-> EmbedScriptId]
  /\ lastOp' = "load"
  /\ events' = events + 1
  /\ UNCHANGED <<View, Page, chatboxes, loadListeners, ChartHarness>>

ChatNext ==
  \/ \E p \in Pages : events < ChatEvents /\ OpenPage(p)
  \/ events < ChatEvents /\ ClosePage
  \/ events < ChatEvents /\ MountChatbox
  \/ events < ChatEvents /\ UnmountChatbox
  \/ events < ChatEvents /\ WindowLoad

ChatSpec == Init /\ [][ChatNext]_vars

-----------------------------------------------------------------------------
(* generateMockData as a pure function: the argument, the clock and the     *)
(* generator state are drawn from bounded sets, one step applies it.        *)

GenHours == (0..MaxGenHours) \cup {HoursOf(v) : v \in timeRangeOptions}

GenInit ==
  /\ mounted = FALSE
  /\ isRealTime = TRUE
  /\ timeRange = "6h"
  /\ vitalsData = <<>>
  /\ interval = 0
  /\ timers = {}
  /\ nextTimerId = 1
  /\ now \in {s * ClockStep : s \in 0..MaxClockSteps}
  /\ rng \in 0..MaxSeed
  /\ threw = FALSE
  /\ lastOp = "init"
  /\ events = 0
  /\ ticks = 0
  /\ genHours \in GenHours
  /\ genOut = <<>>
  /\ HostIdle

GenCall ==
  /\ lastOp = "init"
  /\ genOut' = generateMockData(genHours, now, rng)
  /\ rng' = RngAfter(rng, GenDraws(genHours))
  /\ lastOp' = "generate"
  /\ UNCHANGED <<mounted, isRealTime, timeRange, vitalsData, interval, timers,
                 nextTimerId, now, threw, events, ticks, genHours, Host>>

GenNext == GenCall

GenSpec == GenInit /\ [][GenNext]_vars

-----------------------------------------------------------------------------
(* Properties *)

Mapped == DOMAIN vitalsData = Kinds

Stopped == ~mounted \/ ~isRealTime

\* the timestamps of a series, as instants
Instants(series) == [j \in 1..Len(series) |-> DateParse(series[j].time)]

\* C1: for every window length hours >= 0 handed to generateMockData (the
\* selector values 1, 6, 24, 168 and the edge value 0 among them), each of the
\* six generated series has exactly hours * 12 + 1 samples.
C1_GeneratedLength ==
  lastOp = "generate" =>
    /\ Len(genOut) = genHours * 12 + 1
    /\ \A k \in Kinds : Len(SeriesOf(genOut)[k]) = genHours * 12 + 1
    /\ (genHours = 0 => Len(genOut) = 1)
    /\ (genHours = 1 => Len(genOut) = 13)
    /\ (genHours = 6 => Len(genOut) = 73)
    /\ (genHours = 24 => Len(genOut) = 289)
    /\ (genHours = 168 => Len(genOut) = 2017)

C1_Witness == lastOp = "generate" /\ genHours = 168 /\ Len(genOut) = 2017

\* C2 (as claimed): after more than 50 ticks without a window change every
\* one of the six series has length exactly 50.
C2_LengthIsCapAfterManyTicks ==
  (mounted /\ Mapped /\ ticks > 50) => \A k \in Kinds : Len(vitalsData[k]) = 50

\* C3 (as claimed): in every state reached after at least one tick since the
\* last window generation, every series has length <= 50.
C3_LengthAtMostCapOnceTicking ==
  (mounted /\ Mapped /\ ticks >= 1) => \A k \in Kinds : Len(vitalsData[k]) <= 50

\* C4: eviction is drop-oldest and order-preserving: a tick leaves every series
\* equal to a suffix of the series before the tick followed by one new sample.
C4_TickKeepsSuffix ==
  [][(lastOp' = "tick" /\ ticks' = ticks + 1) =>
       \A k \in Kinds :
         LET old == vitalsData[k]
             new == vitalsData'[k]
         IN  /\ Len(new) >= 1
             /\ Len(new) - 1 <= Len(old)
             /\ SubSeq(new, 1, Len(new) - 1) =
                  SubSeq(old, Len(old) - (Len(new) - 1) + 1, Len(old))]_vars

C4_Witness ==
  /\ lastOp = "tick" /\ ticks = 1 /\ timeRange = "24h"
  /\ \A k \in Kinds : Len(vitalsData[k]) < 289

\* C5: a tick appends exactly one new sample to each of the six series, none is
\* skipped and none receives two, and the new sample carries the tick's time.
C5_TickAppendsOnePerSeries ==
  [][(lastOp' = "tick" /\ ticks' = ticks + 1) =>
       /\ DOMAIN vitalsData' = Kinds
       /\ \A k \in Kinds :
            LET old  == vitalsData[k]
                new  == vitalsData'[k]
                kept == IF Len(old) <= Cap THEN Len(old) ELSE Cap
            IN  /\ Len(new) = kept + 1
                /\ DateParse(new[Len(new)].time) = now
                /\ \A j \in 1..kept : new[j] = old[Len(old) - kept + j]]_vars

C5_Witness ==
  /\ lastOp = "tick" /\ ticks = 2 /\ now = 2 * TickMs
  /\ \A k \in Kinds :
       /\ DateParse(vitalsData[k][Len(vitalsData[k])].time) = now
       /\ DateParse(vitalsData[k][Len(vitalsData[k]) - 1].time) = now - TickMs

\* C6: once the updater is stopped (view unmounted or real-time flag cleared)
\* no timer is left and no timer callback runs, however long the clock runs on.
C6_NoTickWhenStopped == Stopped => (timers = {} /\ lastOp # "tick")

C6_Witness ==
  /\ mounted /\ ~isRealTime /\ ticks = 1
  /\ lastOp = "advance" /\ now = 2 * TickMs
  /\ \A k \in Kinds : DateParse(vitalsData[k][Len(vitalsData[k])].time) = TickMs

\* C7: the updater is Running (a timer is armed) if and only if the view is
\* mounted with the real-time flag set; with the flag false from mount on no
\* tick ever occurs.
C7_RunningIffMountedAndRealTime ==
  /\ (timers # {}) <=> (mounted /\ isRealTime)
  /\ (interval # 0) <=> (mounted /\ isRealTime)
  /\ (mounted /\ nextTimerId = 1) => (ticks = 0 /\ lastOp # "tick")

C7_Witness ==
  /\ mounted /\ isRealTime /\ lastOp = "setIsRealTime"
  /\ timers = {[id |-> interval, due |-> now + TickMs]}

\* C8: a mounted view never has two interval timers active at once, the only
\* active timer is the one its effect holds, and no timer outlives the view.
C8_AtMostOneTimer ==
  /\ Cardinality(timers) <= 1
  /\ \A t \in timers : mounted /\ t.id = interval
  /\ ~mounted => timers = {}

C8_Witness ==
  /\ ~mounted /\ nextTimerId = 2 /\ timers = {}
  /\ lastOp = "advance"

\* C9: switching the window to a different value replaces all six series by
\* freshly generated ones of hours * 12 + 1 samples on the 5-minute grid that
\* ends at the time of the switch: no earlier sample, tick-appended or bulk,
\* is left.
C9_SwitchReplacesAll ==
  lastOp = "setTimeRange" =>
    /\ Mapped
    /\ ticks = 0
    /\ \A k \in Kinds :
         LET n == CASE timeRange = "1h" -> 12 [] timeRange = "6h" -> 72
                    [] timeRange = "24h" -> 288 [] timeRange = "7d" -> 2016
         IN  /\ Len(vitalsData[k]) = n + 1
             /\ \A j \in 1..(n + 1) :
                  DateParse(vitalsData[k][j].time) = now - (n + 1 - j) * 300000

C9_Witness ==
  /\ lastOp = "setTimeRange" /\ timeRange = "1h" /\ now = 3 * ClockStep
  /\ \E t \in timers : t.due = 2 * TickMs

\* C10: in a freshly generated series consecutive samples are exactly 5
\* minutes apart, timestamps strictly increase, and the last sample carries
\* the generation time.
C10_FiveMinuteSpacing ==
  lastOp = "generate" =>
    \A k \in Kinds :
      LET ts == Instants(SeriesOf(genOut)[k])
      IN  /\ Len(ts) >= 1
          /\ ts[Len(ts)] = now
          /\ \A j \in 1..(Len(ts) - 1) :
               ts[j + 1] - ts[j] = 300000 /\ ts[j] < ts[j + 1]

C10_Witness ==
  /\ lastOp = "generate" /\ genHours = 24 /\ now = 2 * ClockStep
  /\ Instants(SeriesOf(genOut)["heartRate"])[1] = now - 288 * 300000

\* the last sample of a series
LastOf(series) == series[Len(series)]

\* C11: in every reachable state every series is ordered by timestamp
\* ascending: no sample is followed by one with an earlier timestamp.
C11_TimestampsAscending ==
  (mounted /\ Mapped) =>
    \A k \in Kinds :
      LET ts == Instants(vitalsData[k])
      IN  \A j \in 1..(Len(ts) - 1) : ts[j] <= ts[j + 1]

C11_Witness ==
  /\ lastOp = "tick" /\ ticks = 1 /\ events = 2 /\ timeRange = "1h"
  /\ \A k \in Kinds :
       LET ts == Instants(vitalsData[k])
       IN  Len(ts) = 14 /\ ts[14] - ts[13] = TickMs /\ ts[13] - ts[12] = 300000

\* per kind: baseline, width of the random term and amplitude of the
\* oscillation, in thousandths
Baseline(k) ==
  CASE k = "heartRate" -> 70000 [] k = "bloodPressureSystolic" -> 110000
    [] k = "bloodPressureDiastolic" -> 70000 [] k = "temperature" -> 98600
    [] k = "oxygenSaturation" -> 95000 [] k = "respirationRate" -> 16000

RandomRange(k) ==
  CASE k = "heartRate" -> 30000 [] k = "bloodPressureSystolic" -> 20000
    [] k = "bloodPressureDiastolic" -> 15000 [] k = "temperature" -> 2000
    [] k = "oxygenSaturation" -> 5000 [] k = "respirationRate" -> 8000

Amplitude(k) ==
  CASE k = "heartRate" -> 10000 [] k = "bloodPressureSystolic" -> 5000
    [] k = "bloodPressureDiastolic" -> 3000 [] k = "temperature" -> 500
    [] k = "oxygenSaturation" -> 2000 [] k = "respirationRate" -> 2000

\* C12: every value produced by bulk generation lies within
\* baseline - range <= v <= baseline + range + amplitude for its kind
\* (heart rate: 40 <= v <= 110), for every sample index and random draw.
C12_BulkValuesBounded ==
  lastOp = "generate" =>
    \A j \in 1..Len(genOut) :
      /\ 40000 <= genOut[j].heartRate /\ genOut[j].heartRate <= 110000
      /\ \A k \in Kinds :
           /\ Baseline(k) - RandomRange(k) <= genOut[j][k]
           /\ genOut[j][k] <= Baseline(k) + RandomRange(k) + Amplitude(k)

C12_Witness ==
  /\ lastOp = "generate" /\ genHours = 168
  /\ \E j \in 1..Len(genOut) : genOut[j].heartRate > 100000
  /\ \E j \in 1..Len(genOut) : genOut[j].heartRate < 70000

\* C13: a tick-generated value is baseline plus the random term only: heart
\* rate is an integer in 70..99, systolic in 110..129, diastolic in 70..84,
\* oxygen saturation in 95..99, respiration rate in 16..23, however many ticks
\* or samples came before.
C13_TickValuesInRange ==
  (lastOp = "tick" /\ mounted /\ Mapped /\ ticks >= 1) =>
    /\ LastOf(vitalsData["heartRate"]).value \in {1000 * x : x \in 70..99}
    /\ LastOf(vitalsData["bloodPressureSystolic"]).value \in {1000 * x : x \in 110..129}
    /\ LastOf(vitalsData["bloodPressureDiastolic"]).value \in {1000 * x : x \in 70..84}
    /\ LastOf(vitalsData["oxygenSaturation"]).value \in {1000 * x : x \in 95..99}
    /\ LastOf(vitalsData["respirationRate"]).value \in {1000 * x : x \in 16..23}

C13_Witness ==
  /\ lastOp = "tick" /\ ticks > 40
  /\ LastOf(vitalsData["heartRate"]).value \in {1000 * x : x \in 70..99}
  /\ LastOf(vitalsData["respirationRate"]).value > 20000

\* C14: the only effect of a tick is the update of the six series: the
\* selected window, the real-time flag and the timer's Running state are
\* unchanged, and the mapping keeps exactly the six vital-kind keys.
C14_TickFrame ==
  [][lastOp' = "tick" =>
       /\ timeRange' = timeRange
       /\ isRealTime' = isRealTime
       /\ mounted' = mounted
       /\ interval' = interval
       /\ {t.id : t \in timers'} = {t.id : t \in timers}
       /\ (timers' # {}) <=> (timers # {})
       /\ DOMAIN vitalsData' = Kinds]_vars

C14_Witness ==
  /\ lastOp = "tick" /\ ticks = 2 /\ timeRange = "24h" /\ isRealTime
  /\ timers = {[id |-> interval, due |-> now + TickMs]}
  /\ Mapped

\* C15: a tick leaves every series with length min(length before, 50) + 1: a
\* shorter series grows by one, a series of 50 or more samples (73, 289 or
\* 2017 after a fresh 6h, 24h or 7d window) is cut to 51 by the first tick.
C15_TickLength ==
  [][(lastOp' = "tick" /\ ticks' = ticks + 1) =>
       \A k \in Kinds :
         Len(vitalsData'[k]) =
           (IF Len(vitalsData[k]) < 50 THEN Len(vitalsData[k]) ELSE 50) + 1]_vars

C15_Witness ==
  /\ lastOp = "tick" /\ ticks = 1 /\ timeRange = "7d"
  /\ \A k \in Kinds : Len(vitalsData[k]) = 51

\* C16: no tick ever runs against the uninitialised series mapping: whenever a
\* timer is armed the six series have been populated, and no timer callback
\* has ever sliced an undefined series.
C16_NoTickOnUninitialised ==
  /\ ~threw
  /\ (timers # {}) => Mapped
  /\ lastOp = "tick" => (Mapped /\ \A k \in Kinds : Len(vitalsData[k]) >= 2)

C16_Witness ==
  /\ lastOp = "tick" /\ ticks = 1 /\ events = 2 /\ nextTimerId = 2
  /\ timeRange = "6h" /\ now = 3 * ClockStep
  /\ ~threw /\ Mapped

\* C17: in every state after mount the six series have the same length and,
\* index by index, identical timestamps.
C17_SeriesAligned ==
  mounted =>
    /\ Mapped
    /\ \A k \in Kinds :
         /\ Len(vitalsData[k]) = Len(vitalsData["heartRate"])
         /\ \A j \in 1..Len(vitalsData[k]) :
              vitalsData[k][j].time = vitalsData["heartRate"][j].time

C17_Witness ==
  /\ lastOp = "tick" /\ events = 2 /\ timeRange = "24h" /\ ticks = 1
  /\ \A k \in Kinds : Len(vitalsData[k]) = 51

\* C18: changing the window selection neither cancels nor restarts the
\* periodic task: the armed timer, its id and its due time are unchanged by a
\* window change, so the next tick can come less than a full period after it.
C18_SwitchKeepsTimer ==
  [][lastOp' = "setTimeRange" =>
       /\ timers' = timers
       /\ interval' = interval
       /\ nextTimerId' = nextTimerId]_vars

C18_Witness ==
  /\ lastOp = "setTimeRange" /\ isRealTime
  /\ timers = {[id |-> 1, due |-> now + ClockStep]}

\* C19: re-selecting the window value that is already selected regenerates
\* nothing: all six series stay as they were, so a series already truncated
\* by ticks is not restored to hours * 12 + 1 samples.
C19_ReselectChangesNothing ==
  [][lastOp' = "reselect" =>
       /\ vitalsData' = vitalsData
       /\ timeRange' = timeRange
       /\ ticks' = ticks]_vars

C19_Witness ==
  /\ lastOp = "reselect" /\ timeRange = "6h" /\ ticks = 1
  /\ \A k \in Kinds : Len(vitalsData[k]) = 51

\* C20: nothing persists across view instances: right after a mount, also one
\* that follows an unmount, the window selection is 6h and every series is a
\* freshly generated 73-sample series ending at the time of the mount.
C20_MountStartsFresh ==
  lastOp = "mount" =>
    /\ timeRange = "6h"
    /\ Mapped
    /\ ticks = 0
    /\ \A k \in Kinds :
         /\ Len(vitalsData[k]) = 73
         /\ \A j \in 1..73 : DateParse(vitalsData[k][j].time) = now - (73 - j) * 300000

C20_Witness ==
  /\ lastOp = "mount" /\ events = 4 /\ nextTimerId = 3
  /\ now = 2 * ClockStep /\ timeRange = "6h"
  /\ \A k \in Kinds : Len(vitalsData[k]) = 73

\* the view is rendered by the page that is open
ViewShown ==
  \/ page = "doctor" /\ selectedPatient # Null
  \/ page = "patient" /\ activeTab = "vitals"

\* C21: a vitals updater exists only while its view is shown: in the doctor
\* dashboard a timer is armed if and only if a patient is selected, in the
\* patient view if and only if the active tab is Vital Signs; Back to Dashboard
\* and a switch to another tab leave no timer, and no tick runs afterwards.
C21_UpdaterIffViewShown ==
  /\ page = "doctor" => ((timers # {}) <=> (selectedPatient # Null))
  /\ page = "patient" => ((timers # {}) <=> (activeTab = "vitals"))
  /\ mounted <=> ViewShown
  /\ Cardinality(timers) <= 1
  /\ lastOp = "back" => timers = {}
  /\ (lastOp = "setActiveTab" /\ activeTab # "vitals") => timers = {}
  /\ ~ViewShown => (timers = {} /\ lastOp # "tick")

C21_Witness ==
  /\ page = "doctor" /\ lastOp = "back" /\ selectedPatient = Null
  /\ nextTimerId = 2 /\ now = TickMs /\ timers = {} /\ ~mounted

\* the ids of a list of alerts
IdsOf(list) == {list[j].id : j \in 1..Len(list)}

\* C22: acknowledging an alert sets acknowledged on the alert with that id and
\* changes nothing else: every other alert, the length and the order of the
\* list are unchanged; acknowledging an acknowledged alert or an unknown id
\* leaves the list unchanged, and acknowledging again changes nothing more.
C22_AcknowledgeFrame ==
  [][lastOp' = "acknowledge" =>
       /\ Len(alerts') = Len(alerts)
       /\ \A j \in 1..Len(alerts) :
            /\ alerts'[j].id = alerts[j].id
            /\ alerts[j].id # opArg' => alerts'[j] = alerts[j]
            /\ alerts[j].id = opArg' =>
                 /\ alerts'[j].acknowledged
                 /\ alerts'[j].patientId = alerts[j].patientId
                 /\ alerts'[j].type = alerts[j].type
                 /\ alerts'[j].value = alerts[j].value
       /\ (opArg' \notin IdsOf(alerts)) => alerts' = alerts
       /\ (\A j \in 1..Len(alerts) : alerts[j].id = opArg' => alerts[j].acknowledged)
            => alerts' = alerts
       /\ handleAcknowledgeAlert(alerts', opArg') = alerts'
       /\ selectedPatient' = selectedPatient
       /\ searchQuery' = searchQuery]_vars

C22_Witness ==
  /\ lastOp = "acknowledge" /\ opArg = "alert-002" /\ events = 2
  /\ Len(alerts) = 3
  /\ alerts[2].acknowledged /\ ~alerts[1].acknowledged /\ ~alerts[3].acknowledged

\* C23: dismissing an alert removes exactly the alert with that id: all other
\* alerts remain, in their previous relative order and with their flags
\* unchanged; dismissing an unknown or already dismissed id leaves the list
\* unchanged.
C23_DismissFrame ==
  [][lastOp' = "dismiss" =>
       /\ IdsOf(alerts') = IdsOf(alerts) \ {opArg'}
       /\ Len(alerts') = Len(alerts) - (IF opArg' \in IdsOf(alerts) THEN 1 ELSE 0)
       /\ \A j \in 1..Len(alerts') :
            alerts'[j] = alerts[IF \E i \in 1..j : alerts[i].id = opArg' THEN j + 1 ELSE j]
       /\ (opArg' \notin IdsOf(alerts)) => alerts' = alerts
       /\ selectedPatient' = selectedPatient
       /\ searchQuery' = searchQuery]_vars

C23_Witness ==
  /\ lastOp = "dismiss" /\ opArg = "alert-002" /\ events = 1
  /\ Len(alerts) = 2
  /\ alerts[1].id = "alert-001" /\ alerts[1].acknowledged
  /\ alerts[2].id = "alert-003" /\ ~alerts[2].acknowledged

\* C24: over any sequence of acknowledge and dismiss operations the alert list
\* never grows, no id that left the list comes back, an acknowledged alert
\* that is still listed stays acknowledged, and the count of active
\* (unacknowledged) alerts never increases.
C24_AlertsOnlyShrink ==
  [][/\ Len(alerts') <= Len(alerts)
     /\ IdsOf(alerts') \subseteq IdsOf(alerts)
     /\ \A j \in 1..Len(alerts) : \A i \in 1..Len(alerts') :
          (alerts'[i].id = alerts[j].id /\ alerts[j].acknowledged) => alerts'[i].acknowledged
     /\ ActiveCount(alerts') <= ActiveCount(alerts)]_vars

C24_Witness ==
  /\ lastOp = "dismiss" /\ events = 2 /\ opArg = "alert-001"
  /\ Len(alerts) = 1 /\ alerts[1].acknowledged /\ ActiveCount(alerts) = 0

\* C25: the panel offers acknowledge and dismiss only for unacknowledged
\* alerts, so while the dashboard lives an acknowledged alert is never
\* dismissed and stays in the list; the "No active alerts" empty state is shown
\* only when the list is empty, not when the active count is 0 because every
\* remaining alert is acknowledged.
C25_ControlsOnlyForUnacknowledged ==
  [][(page = "doctor" /\ page' = "doctor") =>
       /\ \A j \in 1..Len(alerts) :
            alerts[j].acknowledged => \E i \in 1..Len(alerts') : alerts'[i] = alerts[j]
       /\ lastOp' \in {"acknowledge", "dismiss"} =>
            \E j \in 1..Len(alerts) :
              alerts[j].id = opArg' /\ ~alerts[j].acknowledged /\ ControlsOffered(alerts[j])
       /\ \A j \in 1..Len(alerts') : ControlsOffered(alerts'[j]) <=> ~alerts'[j].acknowledged
       /\ EmptyStateShown(alerts') <=> (alerts' = <<>>)
       /\ (ActiveCount(alerts') = 0 /\ Len(alerts') > 0) => ~EmptyStateShown(alerts')]_vars

C25_Witness ==
  /\ PanelShown /\ lastOp = "acknowledge" /\ events = 4
  /\ Len(alerts) = 2 /\ ActiveCount(alerts) = 0 /\ ~EmptyStateShown(alerts)
  /\ \A j \in 1..Len(alerts) : ~ControlsOffered(alerts[j])

\* C26: the alert list of the doctor dashboard is changed by nothing but its
\* acknowledge and dismiss buttons: selecting a patient, watching the patient
\* monitor tick, Back to Dashboard and editing the search query leave it as it
\* was, so earlier acknowledgements and dismissals are still in effect.
C26_AlertsSurviveNavigation ==
  [][(page = "doctor" /\ page' = "doctor" /\ lastOp' \notin {"acknowledge", "dismiss"}) =>
       alerts' = alerts]_vars

C26_Witness ==
  /\ page = "doctor" /\ lastOp = "back" /\ events = 4 /\ selectedPatient = Null
  /\ Len(alerts) = 2 /\ IdsOf(alerts) = {"alert-001", "alert-003"}

\* C27: the chart's current-abnormal indicator is set if and only if a normal
\* range is given, the series is non-empty, the latest value is non-zero and
\* the latest value is below the minimum or above the maximum; values equal
\* to min or max are normal, and an empty series or a latest value of 0 shows
\* '--' and is never flagged, even when 0 is below the minimum.
C27_AbnormalIndicator ==
  lastOp = "render" =>
    LET n == Len(chartData)
        given == chartRange # <<>>
    IN  /\ chartOut.abnormal <=>
             /\ given
             /\ n > 0
             /\ chartData[n].value # 0
             /\ \/ chartData[n].value < chartRange[1].min
                \/ chartData[n].value > chartRange[1].max
        /\ (given /\ n > 0 /\ chartData[n].value \in {chartRange[1].min, chartRange[1].max})
             => ~chartOut.abnormal
        /\ (n = 0 \/ chartData[n].value = 0) => (chartOut.text.dash /\ ~chartOut.abnormal)
        /\ (n > 0 /\ chartData[n].value # 0) =>
             chartOut.text = [dash |-> FALSE, value |-> chartData[n].value]

C27_Witness ==
  /\ lastOp = "render" /\ Len(chartData) = 2
  /\ chartData[2].value = 0 /\ chartData[1].value = 3
  /\ chartRange = <<[min |-> 1, max |-> 2]>>
  /\ chartOut.text.dash /\ ~chartOut.abnormal

\* C28: immediately after any tick the latest heart rate, systolic pressure,
\* diastolic pressure and oxygen saturation samples lie inside the display
\* normal ranges (60-100, 90-140, 60-90, 95-100), so those four charts are not
\* flagged abnormal right after a tick; the tick-generated respiration rate
\* (up to 23 against a maximum of 20) can be flagged.
C28_TickValuesInsideNormalRange ==
  (lastOp = "tick" /\ mounted /\ Mapped /\ ticks >= 1) =>
    /\ \A k \in {"heartRate", "bloodPressureSystolic", "bloodPressureDiastolic",
                 "oxygenSaturation"} :
         /\ NormalRange(k).min <= LastOf(vitalsData[k]).value
         /\ LastOf(vitalsData[k]).value <= NormalRange(k).max
         /\ ~ChartFlag(k)
    /\ 60000 <= LastOf(vitalsData["heartRate"]).value
    /\ LastOf(vitalsData["heartRate"]).value <= 100000
    /\ 90000 <= LastOf(vitalsData["bloodPressureSystolic"]).value
    /\ LastOf(vitalsData["bloodPressureSystolic"]).value <= 140000
    /\ 60000 <= LastOf(vitalsData["bloodPressureDiastolic"]).value
    /\ LastOf(vitalsData["bloodPressureDiastolic"]).value <= 90000
    /\ 95000 <= LastOf(vitalsData["oxygenSaturation"]).value
    /\ LastOf(vitalsData["oxygenSaturation"]).value <= 100000
    /\ LastOf(vitalsData["respirationRate"]).value <= 23000
    /\ ChartFlag("respirationRate") <=> LastOf(vitalsData["respirationRate"]).value > 20000

C28_Witness ==
  /\ lastOp = "tick" /\ mounted /\ Mapped /\ ticks >= 1
  /\ ChartFlag("respirationRate")
  /\ LastOf(vitalsData["respirationRate"]).value \in {21000, 22000, 23000}
  /\ ~ChartFlag("heartRate") /\ ~ChartFlag("oxygenSaturation")

\* the number of script elements with the given id in the document
CountOf(doc, id) == Cardinality({j \in 1..Len(doc) : doc[j] = id})

\* C29: the Chatbox component injects its script at most once: after any
\* number of Chatbox mounts and unmounts the document holds at most one script
\* element with id 'chatbase-script', exactly one while a Chatbox is mounted,
\* and no step, unmounting included, removes it.
C29_ScriptInjectedOnce ==
  [][/\ CountOf(scripts', ChatbaseScriptId) <= 1
     /\ CountOf(scripts', ChatbaseScriptId) >= CountOf(scripts, ChatbaseScriptId)
     /\ chatboxes' > 0 => CountOf(scripts', ChatbaseScriptId) = 1
     /\ lastOp' = "unmountChatbox" => scripts' = scripts]_vars

C29_Witness ==
  /\ lastOp = "unmountChatbox" /\ chatboxes = 0 /\ events = 5
  /\ CountOf(scripts, ChatbaseScriptId) = 1
  /\ CountOf(scripts, EmbedScriptId) = 1
  /\ scripts[1] = ChatbaseScriptId

\* C30: the window selector only ever holds one of the four values 1h, 6h,
\* 24h, 7d, is 6h right after mount, and maps to 1, 6, 24 and 168 hours: every
\* bulk generation the view asks for is one of these four lengths.
C30_WindowSelector ==
  /\ timeRange \in {"1h", "6h", "24h", "7d"}
  /\ {o : o \in timeRangeOptions} = {"1h", "6h", "24h", "7d"}
  /\ lastOp = "mount" => timeRange = "6h"
  /\ HoursOf("1h") = 1 /\ HoursOf("6h") = 6 /\ HoursOf("24h") = 24 /\ HoursOf("7d") = 168
  /\ (mounted /\ ticks = 0) =>
       \A k \in Kinds :
         /\ timeRange = "1h" => Len(vitalsData[k]) = 1 * 12 + 1
         /\ timeRange = "6h" => Len(vitalsData[k]) = 6 * 12 + 1
         /\ timeRange = "24h" => Len(vitalsData[k]) = 24 * 12 + 1
         /\ timeRange = "7d" => Len(vitalsData[k]) = 168 * 12 + 1

C30_Witness ==
  /\ mounted /\ lastOp = "setTimeRange" /\ timeRange = "7d" /\ events = 2
  /\ Len(vitalsData["temperature"]) = 2017
  /\ now = 2 * ClockStep

====
